---- MODULE Spec2Model ----
(***************************************************************************)
(* MatchAnnot: the annotation tree (Annotations.py), its sweep cursor, the *)
(* exon-interval overlap matcher and the transcript scoring of             *)
(* matchAnnot.py, and the tiling of reads into fasta files of splitSAM.py, *)
(* as state machines.  Each component has its own specification; the       *)
(* variables of the other components stay at their idle values.            *)
(*                                                                         *)
(* Conventions.  Python lists are sequences; Python's 0-based indices are  *)
(* written 1-based (index i of the code is i+1 here), which changes no     *)
(* comparison between indices.  An interval is a record [start, end].      *)
(* "children is None" of an Annotation is the empty sequence: the code     *)
(* never holds an empty children list.                                     *)
(***************************************************************************)
EXTENDS Integers, Sequences, FiniteSets, TLC

VARIABLES
    \* findOverlaps harness
    list1, list2,       \* the two interval lists handed to findOverlaps
    ovFwd,              \* result of findOverlaps(list1, list2)
    ovRev,              \* result of findOverlaps(list2, list1)
    \* AnnotationCursor over an AnnotationList
    annot,              \* AnnotationList.annot: chr -> the chr's gene list
    posit,              \* AnnotationCursor.posit: chr -> offset (the code's 0-based index)
    curCall,            \* the last cursor call: its arguments and its outcome
    \* one Annotation node receiving addChild calls
    kidStart,           \* the children created so far: child id -> its start
    kids,               \* the node's children list (child ids)
    kidPath,            \* the branch of addChild the last call took
    \* AnnotationList.initFromAlt reading the exon records of one chromosome
    altGenes,           \* the gene nodes created: gene id -> [name, start, end]
    altTrans,           \* the transcript nodes: id -> [name, ID, start, end, length]
    altExons,           \* the exon nodes: id -> [start, end]
    chrKids,            \* chrEnt.children (gene ids)
    geneKids,           \* gene id -> that gene's children (transcript ids)
    tranKids,           \* transcript id -> that transcript's children (exon ids)
    geneEnt,            \* the current gene (0: None)
    tranEnt,            \* the current transcript (0: None)
    altErr,             \* the error raised, "" while none
    \* matchTranscripts(readExons, gene)
    readExons,          \* the read's exons
    mtPc,               \* "loop": in the first for loop; "done": returned; "error"
    mtPre,              \* per transcript, what the loop computed: [score, trunc, hits]
    scores,             \* the scores list
    bestScore,          \* Best()
    bestTrunc,          \* Best(reverse=True)
    bestHits,           \* Best()
    mtRet,              \* the returned (transcript index, score)
    \* AnnotationList lookups by name
    geneDict,           \* AnnotationList.geneDict, the cached gene name table
    \* one Best object receiving update calls
    trk,                \* the Best object
    trkLog,             \* the (value, which) pairs handed to update, in call order
    \* one Annotation node receiving updateStartEnd calls
    updNode,            \* the node: [start, end, children]
    updLog,             \* the (start, end) ranges handed to updateStartEnd, in call order
    \* matchAnnot.main reading the lines of a SAM file
    lastPos,            \* lastPos: chr -> start of the last aligned read (absent: no entry)
    mainPc,             \* "lines": in the loop over the lines; "error": an exception left main
    mainRead,           \* the read of the last line processed
    mainLoop,           \* where the line's loops are: the n-th strand, its k-th gene
    mainOut,            \* what the processing of that line did
    \* splitSAM.main reading the lines of a SAM file
    splitLastPos,       \* main's lastPos: chr -> start of the last aligned read
    fastaList,          \* the open numbered fasta files, in the order they were opened
    fastaNonAligned,    \* the fasta file of the reads that are not aligned
    splitTot,           \* the counters totReads, totAlign, totUnsup
    splitPc,            \* "lines": in the loop over the lines; "error": an exception left main
    \* showCoords, called by the print loop of matchTranscripts
    shown               \* the outcome of the last showCoords call

ovVars  == <<list1, list2, ovFwd, ovRev>>
curVars == <<annot, posit, curCall>>
kidVars == <<kidStart, kids, kidPath>>
altVars == <<altGenes, altTrans, altExons, chrKids, geneKids, tranKids, geneEnt, tranEnt,
             altErr>>
mtVars  == <<readExons, mtPc, mtPre, scores, bestScore, bestTrunc, bestHits, mtRet>>

lkVars  == <<geneDict>>
trkVars == <<trk, trkLog>>
updVars == <<updNode, updLog>>
mainVars == <<lastPos, mainPc, mainRead, mainLoop, mainOut>>
splitVars == <<splitLastPos, fastaList, fastaNonAligned, splitTot, splitPc>>
showVars == <<shown>>

vars == <<ovVars, curVars, kidVars, altVars, mtVars, lkVars, trkVars, updVars, mainVars,
          splitVars, showVars>>

\* The variables of all components but one.
notOv  == <<curVars, kidVars, altVars, mtVars, lkVars, trkVars, updVars, mainVars,
           splitVars, showVars>>
notCur == <<ovVars, kidVars, altVars, mtVars, lkVars, trkVars, updVars, mainVars,
           splitVars, showVars>>
notKid == <<ovVars, curVars, altVars, mtVars, lkVars, trkVars, updVars, mainVars,
           splitVars, showVars>>
notAlt == <<ovVars, curVars, kidVars, mtVars, lkVars, trkVars, updVars, mainVars,
           splitVars, showVars>>
notMt  == <<ovVars, curVars, kidVars, altVars, lkVars, trkVars, updVars, mainVars,
           splitVars, showVars>>
notTrk == <<ovVars, curVars, kidVars, altVars, mtVars, lkVars, updVars, mainVars,
           splitVars, showVars>>
notUpd == <<ovVars, curVars, kidVars, altVars, mtVars, lkVars, trkVars, mainVars,
           splitVars, showVars>>
\* The variables that a lookup in the AnnotationList and a line of main leave alone.
notLk   == <<ovVars, kidVars, altVars, mtVars, trkVars, updVars, mainVars, splitVars, showVars>>
notMain == <<ovVars, kidVars, altVars, mtVars, lkVars, trkVars, updVars, splitVars, showVars>>
\* The variables that a pass of matchTranscripts' loop, with its findOverlaps
\* call, leaves alone.
notScore == <<curVars, kidVars, altVars, lkVars, trkVars, updVars, mainVars, splitVars>>
notSplit == <<ovVars, curVars, kidVars, altVars, mtVars, lkVars, trkVars, updVars, mainVars,
             showVars>>

(***************************************************************************)
(* Generic helpers                                                         *)
(***************************************************************************)

\* The intervals [s,e] with 1 <= s <= e <= n.
Intervals(n) == { r \in [start : 1..n, end : 1..n] : r.start <= r.end }

\* All sequences over S of length 0..n.
SeqsUpTo(S, n) == UNION { [1..k -> S] : k \in 0..n }

\* A list is in ascending (non-decreasing) start order.
SortedByStart(l) == \A i \in 1..(Len(l) - 1) : l[i].start <= l[i+1].start

\* The elements of a finite set of integers as an ascending sequence.
RECURSIVE AscSeq(_)
AscSeq(S) ==
    IF S = {} THEN <<>>
    ELSE LET m == CHOOSE x \in S : \A y \in S : x <= y
         IN  <<m>> \o AscSeq(S \ {m})

(***************************************************************************)
(* Idle values: what a component's variables hold while another            *)
(* component's specification runs.                                         *)
(***************************************************************************)

\* findOverlaps has not been called.
NotCalled == [done |-> FALSE, over1 |-> <<>>, over2 |-> <<>>]

\* No call has been made on the AnnotationList or its cursor.  node is what
\* geneList returned; name, absent and genes are getGene's argument, whether it
\* returned None, and the list it returned.
NoCall == [op |-> "none", chr |-> "", start |-> 0, end |-> 0, strand |-> "",
           offset |-> 0, yielded |-> <<>>, raised |-> FALSE,
           node |-> <<>>, name |-> "", absent |-> FALSE, genes |-> <<>>]

OvIdle ==
    /\ list1 = <<>>
    /\ list2 = <<>>
    /\ ovFwd = NotCalled
    /\ ovRev = NotCalled

CurIdle ==
    /\ annot = [c \in {} |-> <<>>]
    /\ posit = [c \in {} |-> 0]
    /\ curCall = NoCall

KidIdle ==
    /\ kidStart = <<>>
    /\ kids = <<>>
    /\ kidPath = "none"

\* Best.__init__: nothing is held; reverse selects the smallest value.
NewBest(reverse) == [held |-> FALSE, value |-> 0, which |-> 0, reverse |-> reverse]

\* No return value yet.
NoReturn == [tran |-> 0, score |-> 0]

AltIdle ==
    /\ altGenes = <<>>
    /\ altTrans = <<>>
    /\ altExons = <<>>
    /\ chrKids = <<>>
    /\ geneKids = <<>>
    /\ tranKids = <<>>
    /\ geneEnt = 0
    /\ tranEnt = 0
    /\ altErr = ""

MtIdle ==
    /\ readExons = <<>>
    /\ mtPc = "idle"
    /\ mtPre = <<>>
    /\ scores = <<>>
    /\ bestScore = NewBest(FALSE)
    /\ bestTrunc = NewBest(FALSE)
    /\ bestHits = NewBest(FALSE)
    /\ mtRet = NoReturn

\* AnnotationList.__init__: self.geneDict = None
NoGeneDict == [built |-> FALSE, dict |-> [n \in {} |-> <<>>]]

LkIdle == geneDict = NoGeneDict

TrkIdle ==
    /\ trk = NewBest(FALSE)
    /\ trkLog = <<>>

\* No node is there.
UpdIdle ==
    /\ updNode = [start |-> 0, end |-> 0, children |-> <<>>]
    /\ updLog = <<>>

\* No line has been processed.
NoRead == [aligned |-> FALSE, chr |-> "", strand |-> "", exons |-> <<>>]
\* result: how the processing of the line ended; searched: the strands whose
\* gene loop was entered, in order; matched: the matchTranscripts calls that
\* returned; afterFirst: bestHit when the gene loop of the first strand ended.
NoOutcome == [result |-> "none", searched |-> <<>>, matched |-> <<>>,
              bestHit |-> NewBest(FALSE),
              afterFirst |-> [done |-> FALSE, bestHit |-> NewBest(FALSE)]]

NoLoop == [n |-> 0, k |-> 0]

MainIdle ==
    /\ lastPos = [c \in {} |-> 0]
    /\ mainPc = "idle"
    /\ mainRead = NoRead
    /\ mainLoop = NoLoop
    /\ mainOut = NoOutcome

\* tiledFasta.__init__: lastPos is an empty dict and nothing is written.  reads is
\* what addRead wrote to the file: the (chr, start, end) of its header lines.
NewFasta == [lastPos |-> [c \in {} |-> 0], reads |-> <<>>]

NoCounts == [totReads |-> 0, totAlign |-> 0, totUnsup |-> 0]

SplitIdle ==
    /\ splitLastPos = [c \in {} |-> 0]
    /\ fastaList = <<>>
    /\ fastaNonAligned = NewFasta
    /\ splitTot = NoCounts
    /\ splitPc = "idle"

\* showCoords has not been called.  ixR and ixT are where the walk stood when it
\* ended (the code's 0-based indices), steps the passes of its three loops.
NotShown == [called |-> FALSE, raised |-> FALSE, ixR |-> 0, ixT |-> 0, steps |-> 0]

ShowIdle == shown = NotShown

\* Every component but one is idle.
OnlyOv  == CurIdle /\ KidIdle /\ AltIdle /\ MtIdle /\ LkIdle /\ TrkIdle /\ UpdIdle /\ MainIdle
            /\ SplitIdle /\ ShowIdle
OnlyCur == OvIdle /\ KidIdle /\ AltIdle /\ MtIdle /\ LkIdle /\ TrkIdle /\ UpdIdle /\ MainIdle
            /\ SplitIdle /\ ShowIdle
OnlyKid == OvIdle /\ CurIdle /\ AltIdle /\ MtIdle /\ LkIdle /\ TrkIdle /\ UpdIdle /\ MainIdle
            /\ SplitIdle /\ ShowIdle
OnlyAlt == OvIdle /\ CurIdle /\ KidIdle /\ MtIdle /\ LkIdle /\ TrkIdle /\ UpdIdle /\ MainIdle
            /\ SplitIdle /\ ShowIdle
OnlyMt  == OvIdle /\ CurIdle /\ KidIdle /\ AltIdle /\ LkIdle /\ TrkIdle /\ UpdIdle /\ MainIdle
            /\ SplitIdle /\ ShowIdle
OnlyTrk == OvIdle /\ CurIdle /\ KidIdle /\ AltIdle /\ MtIdle /\ LkIdle /\ UpdIdle /\ MainIdle
            /\ SplitIdle /\ ShowIdle
OnlyUpd == OvIdle /\ CurIdle /\ KidIdle /\ AltIdle /\ MtIdle /\ LkIdle /\ TrkIdle /\ MainIdle
            /\ SplitIdle /\ ShowIdle
\* An AnnotationList with its lookups, and main with its AnnotationList and
\* cursor: the other components are idle.
OnlyLk   == OvIdle /\ KidIdle /\ AltIdle /\ MtIdle /\ TrkIdle /\ UpdIdle /\ MainIdle
            /\ SplitIdle /\ ShowIdle
OnlyMain == OvIdle /\ KidIdle /\ AltIdle /\ MtIdle /\ LkIdle /\ TrkIdle /\ UpdIdle
            /\ SplitIdle /\ ShowIdle
OnlyScore == CurIdle /\ KidIdle /\ AltIdle /\ LkIdle /\ TrkIdle /\ UpdIdle /\ MainIdle
             /\ SplitIdle
OnlySplit == OvIdle /\ CurIdle /\ KidIdle /\ AltIdle /\ MtIdle /\ LkIdle /\ TrkIdle /\ UpdIdle
             /\ MainIdle /\ ShowIdle

(***************************************************************************)
(* matchAnnot.findOverlaps                                                 *)
(***************************************************************************)

MaxOvCoord == 3     \* interval coordinates are 1..MaxOvCoord
MaxOvLen   == 2     \* each list holds at most MaxOvLen intervals

OvLists == { l \in SeqsUpTo(Intervals(MaxOvCoord), MaxOvLen) : SortedByStart(l) }

\* while pos2 < len(list2) and list2[pos2].end < list1[pos1].start: pos2 += 1
RECURSIVE SkipDone(_, _, _)
SkipDone(l2, pos2, s) ==
    IF pos2 <= Len(l2) /\ l2[pos2].end < s
    THEN SkipDone(l2, pos2 + 1, s)
    ELSE pos2

\* ix = pos2; while ix < len(list2) and list2[ix].start < list1[pos1].end: ix += 1
\* (the value of ix when the loop ends)
RECURSIVE ScanEnd(_, _, _)
ScanEnd(l2, ix, e) ==
    IF ix <= Len(l2) /\ l2[ix].start < e
    THEN ScanEnd(l2, ix + 1, e)
    ELSE ix

\* The loop with over2[ix].insert(0, pos1) for over2[ix].append(pos1).
RECURSIVE FindLoopPrepends(_, _, _, _, _, _)
FindLoopPrepends(l1, l2, pos1, pos2, over1, over2) ==
    IF pos1 > Len(l1) THEN [over1 |-> over1, over2 |-> over2]
    ELSE LET p2   == SkipDone(l2, pos2, l1[pos1].start)
             stop == ScanEnd(l2, p2, l1[pos1].end)
             o1   == [over1 EXCEPT ![pos1] = [k \in 1..(stop - p2) |-> p2 + k - 1]]
             o2   == [j \in 1..Len(l2) |->
                        IF j >= p2 /\ j < stop THEN <<pos1>> \o over2[j]
                                               ELSE over2[j]]
         IN  FindLoopPrepends(l1, l2, pos1 + 1, p2, o1, o2)

\* One iteration of the for loop over pos1, then the remaining ones.
RECURSIVE FindLoop(_, _, _, _, _, _)
FindLoop(l1, l2, pos1, pos2, over1, over2) ==
    IF pos1 > Len(l1) THEN [over1 |-> over1, over2 |-> over2]
    ELSE LET p2   == SkipDone(l2, pos2, l1[pos1].start)
             stop == ScanEnd(l2, p2, l1[pos1].end)
             o1   == [over1 EXCEPT ![pos1] = [k \in 1..(stop - p2) |-> p2 + k - 1]]
             o2   == [j \in 1..Len(l2) |->
                        IF j >= p2 /\ j < stop THEN Append(over2[j], pos1)
                                               ELSE over2[j]]
         IN  FindLoop(l1, l2, pos1 + 1, p2, o1, o2)

findOverlaps(l1, l2) ==
    FindLoop(l1, l2, 1, 1, [i \in 1..Len(l1) |-> <<>>], [j \in 1..Len(l2) |-> <<>>])

Returned(r) == [done |-> TRUE, over1 |-> r.over1, over2 |-> r.over2]

OvInit ==
    /\ OnlyOv
    /\ list1 \in OvLists
    /\ list2 \in OvLists
    /\ ovFwd = NotCalled
    /\ ovRev = NotCalled

\* over1, over2 = findOverlaps(list1, list2)
CallFindOverlaps ==
    /\ ~ovFwd.done
    /\ ovFwd' = Returned(findOverlaps(list1, list2))
    /\ UNCHANGED <<list1, list2, ovRev, notOv>>

\* the same call with the arguments exchanged: findOverlaps(list2, list1)
CallFindOverlapsSwapped ==
    /\ ~ovRev.done
    /\ ovRev' = Returned(findOverlaps(list2, list1))
    /\ UNCHANGED <<list1, list2, ovFwd, notOv>>

OvNext == CallFindOverlaps \/ CallFindOverlapsSwapped

SpecOverlaps == OvInit /\ [][OvNext]_vars

\* The overlap test of the interval matcher as the specification states it.
OverlapTest(a, b) == a.start < b.end /\ b.start < a.end

\* The brute-force reference: every pair is tested.
BruteForce(la, lb) ==
    [i \in 1..Len(la) |-> AscSeq({ j \in 1..Len(lb) : OverlapTest(la[i], lb[j]) })]

\* C1: for lists sorted ascending by start, findOverlaps(A,B) equals the
\* brute-force check of every pair with the test s1 < e2 /\ s2 < e1, in both
\* result lists; empty lists give empty results.
C1_EqualsBruteForce ==
    ovFwd.done =>
        /\ ovFwd.over1 = BruteForce(list1, list2)
        /\ ovFwd.over2 = BruteForce(list2, list1)

\* C2: findOverlaps(A,B) and findOverlaps(B,A) are exact transposes: the first
\* result of one call is the second result of the other, and vice versa.
C2_SwappedCallsTranspose ==
    (ovFwd.done /\ ovRev.done) =>
        /\ ovFwd.over1 = ovRev.over2
        /\ ovFwd.over2 = ovRev.over1

(***************************************************************************)
(* findOverlaps on any two lists of intervals, in ascending order or not.  *)
(***************************************************************************)

MaxAnyCoord == 2    \* interval coordinates are 1..MaxAnyCoord
MaxAnyLen   == 2    \* each list holds at most MaxAnyLen intervals

AnyLists == SeqsUpTo(Intervals(MaxAnyCoord), MaxAnyLen)

AnyInit ==
    /\ OnlyOv
    /\ list1 \in AnyLists
    /\ list2 \in AnyLists
    /\ ovFwd = NotCalled
    /\ ovRev = NotCalled

SpecOverlapsAny == AnyInit /\ [][OvNext]_vars

\* Every index list of an overlap list is strictly ascending.
StrictlyAscending(over) ==
    \A i \in 1..Len(over) : \A k \in 1..(Len(over[i]) - 1) : over[i][k] < over[i][k + 1]

\* The index lists of over as sets.
IndexSets(over) == [i \in 1..Len(over) |-> { over[i][k] : k \in 1..Len(over[i]) }]

\* The results (over1, over2) of one call on (la, lb): one entry per input
\* element, transposes of each other, every index list strictly ascending.
WellFormedResult(la, lb, over1, over2) ==
    /\ Len(over1) = Len(la)
    /\ Len(over2) = Len(lb)
    /\ \A i \in 1..Len(la), j \in 1..Len(lb) :
          j \in IndexSets(over1)[i] <=> i \in IndexSets(over2)[j]
    /\ \A i \in 1..Len(over1) : IndexSets(over1)[i] \subseteq 1..Len(lb)
    /\ \A j \in 1..Len(over2) : IndexSets(over2)[j] \subseteq 1..Len(la)
    /\ StrictlyAscending(over1)
    /\ StrictlyAscending(over2)

\* C26: the two results of one findOverlaps call are transposes of each other
\* (j is in over1[i] iff i is in over2[j]), each has one entry per input
\* element, and every index list is strictly ascending, hence without
\* duplicates; for any two lists.
C26_ResultsTransposedAscending ==
    /\ ovFwd.done => WellFormedResult(list1, list2, ovFwd.over1, ovFwd.over2)
    /\ ovRev.done => WellFormedResult(list2, list1, ovRev.over1, ovRev.over2)

\* A call on a first list that is not in ascending start order, in which one
\* element overlaps two of the other list and two elements overlap the same one.
C26_Witness ==
    /\ ovFwd.done
    /\ ~SortedByStart(list1)
    /\ \E i \in 1..Len(ovFwd.over1) : Len(ovFwd.over1[i]) >= 2
    /\ \E j \in 1..Len(ovFwd.over2) : Len(ovFwd.over2[j]) >= 2

(***************************************************************************)
(* Annotations.AnnotationCursor                                            *)
(***************************************************************************)

MaxGeneCoord == 3   \* gene and query coordinates are 1..MaxGeneCoord
MaxGenes     == 2   \* the drawn chromosome holds at most MaxGenes genes

Strands == {"+", "-"}

Genes == { g \in [start : 1..MaxGeneCoord, end : 1..MaxGeneCoord, strand : Strands] :
             g.start <= g.end }

GeneLists == { l \in SeqsUpTo(Genes, MaxGenes) : SortedByStart(l) }

\* The chromosome of the index, and a name that is not in it.
Chrs       == {"chr1"}
UnknownChr == "chrUn"

\* AnnotationCursor.__init__: every chromosome of the list starts at offset 0.
CurInit ==
    /\ OnlyCur
    /\ \E l \in GeneLists : annot = [c \in Chrs |-> l]
    /\ posit = [c \in Chrs |-> 0]
    /\ curCall = NoCall

\* AnnotationList.geneList raises when chr is not in the annotation.
geneListRaises(chr) == chr \notin DOMAIN annot

\* AnnotationList.geneList(chr), called by itself
AnnotationList_geneList(chr) ==
    /\ curCall' = IF geneListRaises(chr)
                  THEN [NoCall EXCEPT !.op = "geneList", !.chr = chr, !.raised = TRUE]
                  ELSE [NoCall EXCEPT !.op = "geneList", !.chr = chr, !.node = annot[chr]]
    /\ UNCHANGED <<annot, posit>>

\* The loop with <= for <: a gene ending at start is skipped too.
RECURSIVE AdvanceLoopSkipsTouching(_, _, _)
AdvanceLoopSkipsTouching(geneList, curPos, start) ==
    IF curPos < Len(geneList) /\ geneList[curPos + 1].end <= start
    THEN AdvanceLoopSkipsTouching(geneList, curPos + 1, start)
    ELSE curPos

\* while curPos < numGenes and geneList[curPos].end < start: curPos += 1
RECURSIVE AdvanceLoop(_, _, _)
AdvanceLoop(geneList, curPos, start) ==
    IF curPos < Len(geneList) /\ geneList[curPos + 1].end < start
    THEN AdvanceLoop(geneList, curPos + 1, start)
    ELSE curPos

\* advance that makes an offset for a chromosome it does not know, as
\* self.posit.setdefault(chr, 0) would, and returns.
advanceMakesOffset(chr, start) ==
    IF geneListRaises(chr)
    THEN /\ curCall' = [NoCall EXCEPT !.op = "advance", !.chr = chr, !.start = start]
         /\ posit' = (chr :> 0) @@ posit
         /\ UNCHANGED annot
    ELSE /\ posit' = [posit EXCEPT ![chr] = AdvanceLoop(annot[chr], posit[chr], start)]
         /\ curCall' = [NoCall EXCEPT !.op = "advance", !.chr = chr, !.start = start,
                                      !.offset = posit[chr]]
         /\ UNCHANGED annot

\* AnnotationCursor.advance(chr, start)
advance(chr, start) ==
    IF geneListRaises(chr)
    THEN /\ curCall' = [NoCall EXCEPT !.op = "advance", !.chr = chr, !.start = start,
                                      !.raised = TRUE]
         /\ UNCHANGED <<annot, posit>>
    ELSE /\ posit' = [posit EXCEPT ![chr] = AdvanceLoop(annot[chr], posit[chr], start)]
         /\ curCall' = [NoCall EXCEPT !.op = "advance", !.chr = chr, !.start = start,
                                      !.offset = posit[chr]]
         /\ UNCHANGED annot

\* The scan ending at the first gene that the read has passed (gene.end <= start),
\* in the place of skipping it.
RECURSIVE OverlapScanStopsAtPassed(_, _, _, _, _)
OverlapScanStopsAtPassed(geneList, curPos, start, end, strand) ==
    IF /\ curPos < Len(geneList)
       /\ geneList[curPos + 1].start <= end
       /\ geneList[curPos + 1].end > start
    THEN (IF geneList[curPos + 1].strand = strand THEN <<curPos + 1>> ELSE <<>>)
         \o OverlapScanStopsAtPassed(geneList, curPos + 1, start, end, strand)
    ELSE <<>>

\* The while loop of getOverlappingGenes, run to its end: the positions (1-based)
\* of the genes it yields, in the order it yields them.
RECURSIVE OverlapScan(_, _, _, _, _)
OverlapScan(geneList, curPos, start, end, strand) ==
    IF curPos < Len(geneList) /\ geneList[curPos + 1].start <= end
    THEN (IF geneList[curPos + 1].strand = strand /\ geneList[curPos + 1].end > start
          THEN <<curPos + 1>> ELSE <<>>)
         \o OverlapScan(geneList, curPos + 1, start, end, strand)
    ELSE <<>>

\* getOverlappingGenes with the scan position stored back into self.posit.
getOverlappingGenesMovesCursor(chr, start, end, strand) ==
    IF geneListRaises(chr)
    THEN /\ curCall' = [NoCall EXCEPT !.op = "query", !.chr = chr, !.start = start,
                                      !.end = end, !.strand = strand, !.raised = TRUE]
         /\ UNCHANGED <<annot, posit>>
    ELSE LET y == OverlapScan(annot[chr], posit[chr], start, end, strand)
         IN  /\ curCall' = [NoCall EXCEPT !.op = "query", !.chr = chr, !.start = start,
                                          !.end = end, !.strand = strand,
                                          !.offset = posit[chr], !.yielded = y]
             /\ posit' = [posit EXCEPT ![chr] =
                            IF y = <<>> THEN posit[chr] ELSE y[Len(y)]]
             /\ UNCHANGED annot

\* AnnotationCursor.getOverlappingGenes(chr, start, end, strand), consumed to its end
getOverlappingGenes(chr, start, end, strand) ==
    IF geneListRaises(chr)
    THEN /\ curCall' = [NoCall EXCEPT !.op = "query", !.chr = chr, !.start = start,
                                      !.end = end, !.strand = strand, !.raised = TRUE]
         /\ UNCHANGED <<annot, posit>>
    ELSE LET y == OverlapScan(annot[chr], posit[chr], start, end, strand)
         IN  /\ curCall' = [NoCall EXCEPT !.op = "query", !.chr = chr, !.start = start,
                                          !.end = end, !.strand = strand,
                                          !.offset = posit[chr], !.yielded = y]
             /\ UNCHANGED <<annot, posit>>

\* The positions a call is tried with: a lookup of the unknown chromosome fails
\* before any other argument is read, so one position stands for all.
Positions(chr) == IF chr = UnknownChr THEN {1} ELSE 1..MaxGeneCoord

CallAdvance ==
    \E chr \in Chrs \cup {UnknownChr} :
        \E start \in Positions(chr) :
            /\ advance(chr, start)
            /\ UNCHANGED notCur

CallGetOverlappingGenes ==
    \E chr \in Chrs \cup {UnknownChr}, strand \in Strands :
        \E start \in Positions(chr), end \in Positions(chr) :
            /\ start <= end
            /\ getOverlappingGenes(chr, start, end, strand)
            /\ UNCHANGED notCur

CallGeneList ==
    \E chr \in Chrs \cup {UnknownChr} :
        /\ AnnotationList_geneList(chr)
        /\ UNCHANGED notCur

CurNext == CallAdvance \/ CallGetOverlappingGenes \/ CallGeneList

SpecCursor == CurInit /\ [][CurNext]_vars

\* The least element of a non-empty set of integers.
Least(S) == CHOOSE x \in S : \A y \in S : x <= y

\* C3: advance(chr, pos) sets the chromosome's offset to the least index
\* i >= the old offset with i = number of genes or gene[i].end >= pos; so the
\* offset never decreases, every skipped gene ends strictly before pos, and
\* advancing again at the same position changes nothing.
C3_AdvanceToLeast ==
    [][ /\ (curCall'.op = "advance" /\ ~curCall'.raised) =>
              LET c   == curCall'.chr
                  pos == curCall'.start
                  n   == Len(annot[c])
              IN  /\ posit'[c] = Least({ i \in posit[c]..n :
                                           i = n \/ annot[c][i + 1].end >= pos })
                  /\ posit'[c] >= posit[c]
                  /\ \A i \in posit[c]..(posit'[c] - 1) : annot[c][i + 1].end < pos
        /\ (curCall.op = "advance" /\ curCall'.op = "advance" /\ curCall'.chr = curCall.chr
              /\ curCall'.start = curCall.start) => posit' = posit
      ]_vars

\* An advance has skipped a gene and stopped before the end of the list.
C3_Witness ==
    /\ curCall.op = "advance" /\ ~curCall.raised
    /\ posit[curCall.chr] > curCall.offset
    /\ posit[curCall.chr] < Len(annot[curCall.chr])

\* C4: getOverlappingGenes never changes a cursor offset; with no advance in
\* between, consecutive queries on a chromosome (either strand) scan from the
\* same offset, and an identical query yields the identical gene sequence.
C4_QueryKeepsOffsets ==
    [][ /\ curCall'.op = "query" => posit' = posit
        /\ (curCall.op = "query" /\ curCall'.op = "query" /\ ~curCall'.raised
              /\ curCall'.chr = curCall.chr) => curCall'.offset = curCall.offset
        /\ (curCall.op = "query" /\ curCall'.op = "query"
              /\ curCall'.chr = curCall.chr /\ curCall'.start = curCall.start
              /\ curCall'.end = curCall.end /\ curCall'.strand = curCall.strand)
              => curCall'.yielded = curCall.yielded
      ]_vars

\* A query has yielded a gene beyond the offset, and the offset is where it was.
C4_Witness ==
    /\ curCall.op = "query" /\ ~curCall.raised
    /\ Len(curCall.yielded) > 0
    /\ posit[curCall.chr] = curCall.offset
    /\ curCall.yielded[Len(curCall.yielded)] > curCall.offset + 1

\* C5: for a gene list sorted by start, getOverlappingGenes yields, in list
\* order, exactly the genes at index >= the offset that are on the requested
\* strand and overlap [start,end] by the interval matcher's test
\* (gene.start < end and start < gene.end), so a gene touching the query at a
\* boundary coordinate is treated alike at the query's start and at its end.
C5_YieldsExactlyOverlapping ==
    (curCall.op = "query" /\ ~curCall.raised) =>
        LET genes == annot[curCall.chr]
            q     == [start |-> curCall.start, end |-> curCall.end]
        IN  curCall.yielded =
                AscSeq({ i \in (curCall.offset + 1)..Len(genes) :
                           genes[i].strand = curCall.strand /\ OverlapTest(genes[i], q) })

\* C18: geneList(chr) fails when chr is not in the index and otherwise returns
\* the chromosome's top-level node; a failed lookup, by geneList itself or
\* inside advance or getOverlappingGenes, leaves the index and every cursor
\* offset as they were.
C18_UnknownChromosomeFails ==
    [][ /\ curCall'.op \in {"geneList", "advance", "query"} =>
              (curCall'.raised <=> curCall'.chr \notin DOMAIN annot)
        /\ (curCall'.op = "geneList" /\ ~curCall'.raised) =>
              curCall'.node = annot[curCall'.chr]
        /\ curCall'.raised => (annot' = annot /\ posit' = posit)
      ]_vars

\* An advance on an unknown chromosome has failed after the cursor had moved on
\* the known one, and the offset is still there.
C18_Witness ==
    /\ curCall.op = "advance" /\ curCall.raised
    /\ curCall.chr \notin DOMAIN annot
    /\ \E c \in DOMAIN posit : posit[c] > 0

(***************************************************************************)
(* The cursor as main walks it: for each aligned read, advance(chr, start) *)
(* and then getOverlappingGenes(chr, start, end, strand) for the strands   *)
(* tried, the reads coming in non-decreasing start order.                  *)
(***************************************************************************)

MaxSweepCoord == 2   \* gene and read coordinates are 1..MaxSweepCoord
MaxSweepGenes == 3   \* the chromosome holds at most MaxSweepGenes genes

SweepChr == "chr1"

SweepGenes == { g \in [start : 1..MaxSweepCoord, end : 1..MaxSweepCoord, strand : Strands] :
                  g.start <= g.end }

SweepGeneLists == { l \in SeqsUpTo(SweepGenes, MaxSweepGenes) : SortedByStart(l) }

SweepInit ==
    /\ OnlyCur
    /\ \E l \in SweepGeneLists : annot = [c \in {SweepChr} |-> l]
    /\ posit = [c \in {SweepChr} |-> 0]
    /\ curCall = NoCall

\* The next aligned read: its start is not below the start of the read before.
SweepAdvance ==
    /\ curCall.op \in {"none", "query"}
    /\ \E start \in 1..MaxSweepCoord :
          /\ start >= curCall.start
          /\ advance(SweepChr, start)
    /\ UNCHANGED notCur

\* The genes of one strand are asked for, at the start the cursor was advanced to.
SweepQuery ==
    /\ curCall.op \in {"advance", "query"}
    /\ \E end \in curCall.start..MaxSweepCoord, strand \in Strands :
          getOverlappingGenes(SweepChr, curCall.start, end, strand)
    /\ UNCHANGED notCur

SweepNext == SweepAdvance \/ SweepQuery

SpecSweep == SweepInit /\ [][SweepNext]_vars

\* The test getOverlappingGenes applies to a gene: its loop condition and its
\* condition for yielding.
PassesTest(g, start, end, strand) ==
    g.strand = strand /\ g.start <= end /\ g.end > start

\* The positions of the genes of the whole list that pass the test, ascending.
SelectedFromAll(geneList, start, end, strand) ==
    AscSeq({ i \in 1..Len(geneList) : PassesTest(geneList[i], start, end, strand) })

MaxLkGenes == 1     \* each chromosome of the index holds at most MaxLkGenes genes
MaxLkCoord == 1     \* their coordinates are 1..MaxLkCoord

\* sorted(self.annot.keys()) of the index
LkChrs == <<"chr1", "chr2">>

\* The gene names of the index, and a name no gene has.
LkGeneNames == {"G1", "G2"}
UnknownGene == "GX"

NamedGenes ==
    { [name |-> n, start |-> iv.start, end |-> iv.end, strand |-> s] :
        n \in LkGeneNames, iv \in Intervals(MaxLkCoord), s \in Strands }

NamedGeneLists == { l \in SeqsUpTo(NamedGenes, MaxLkGenes) : SortedByStart(l) }

LkInit ==
    /\ OnlyLk
    /\ annot \in [{ LkChrs[i] : i \in 1..Len(LkChrs) } -> NamedGeneLists]
    /\ posit = [c \in DOMAIN annot |-> 0]
    /\ curCall = NoCall
    /\ geneDict = NoGeneDict

\* The genes named n of the chromosomes chrs, as (chr, index) pairs: in the
\* order of chrs and, within a chromosome, of its children.
RECURSIVE GenesNamed(_, _)
GenesNamed(chrs, n) ==
    IF chrs = <<>> THEN <<>>
    ELSE LET c    == Head(chrs)
             here == AscSeq({ i \in 1..Len(annot[c]) : annot[c][i].name = n })
         IN  [k \in 1..Len(here) |-> [chr |-> c, ix |-> here[k]]]
             \o GenesNamed(Tail(chrs), n)

\* AnnotationList.getGeneDict(): the cached table, built at the first call
getGeneDict ==
    IF geneDict.built THEN geneDict
    ELSE [built |-> TRUE,
          dict  |-> [n \in UNION { { annot[c][i].name : i \in 1..Len(annot[c]) } :
                                     c \in DOMAIN annot }
                     |-> GenesNamed(LkChrs, n)]]

\* getGene that indexes the table without asking whether the name is in it.
getGeneIndexes(geneName) ==
    LET gd == getGeneDict
    IN  /\ geneDict' = gd
        /\ curCall' = IF geneName \in DOMAIN gd.dict
                      THEN [NoCall EXCEPT !.op = "getGene", !.name = geneName,
                                          !.genes = gd.dict[geneName]]
                      ELSE [NoCall EXCEPT !.op = "getGene", !.name = geneName,
                                          !.raised = TRUE]
        /\ UNCHANGED <<annot, posit>>

\* AnnotationList.getGene(geneName)
getGene(geneName) ==
    LET gd == getGeneDict
    IN  /\ geneDict' = gd
        /\ curCall' = IF geneName \in DOMAIN gd.dict
                      THEN [NoCall EXCEPT !.op = "getGene", !.name = geneName,
                                          !.genes = gd.dict[geneName]]
                      ELSE [NoCall EXCEPT !.op = "getGene", !.name = geneName,
                                          !.absent = TRUE]
        /\ UNCHANGED <<annot, posit>>

LkGeneList ==
    \E chr \in DOMAIN annot \cup {UnknownChr} :
        /\ AnnotationList_geneList(chr)
        /\ UNCHANGED <<geneDict, notLk>>

LkGetGene ==
    \E geneName \in LkGeneNames \cup {UnknownGene} :
        /\ getGene(geneName)
        /\ UNCHANGED notLk

LkNext == LkGeneList \/ LkGetGene

SpecLookup == LkInit /\ [][LkNext]_vars

\* No gene of the index has the name n.
NoGeneNamed(n) ==
    \A c \in DOMAIN annot : \A i \in 1..Len(annot[c]) : annot[c][i].name # n

\* The last lookup was for a chromosome or a gene name that is not in the index.
LookupMissed ==
    \/ (curCall.op = "geneList" /\ curCall.chr \notin DOMAIN annot)
    \/ (curCall.op = "getGene" /\ NoGeneNamed(curCall.name))

\* C19 as stated: a lookup of a chromosome name (geneList) or of a gene name
\* (getGene) that is not in the index gives the caller an absent-result value
\* and raises no exception.
C19_MissIsAbsentValue ==
    LookupMissed => (~curCall.raised /\ curCall.absent)

\* C19 as amended: getGene of a gene name that is not in the index returns the
\* absent value and raises nothing, and of a name that is in it returns the
\* genes of that name; geneList of a chromosome that is not in the index
\* raises.
C19_GeneMissAbsentChrMissRaises ==
    /\ curCall.op = "getGene" =>
          /\ ~curCall.raised
          /\ curCall.absent <=> NoGeneNamed(curCall.name)
          /\ \A c \in DOMAIN annot : \A i \in 1..Len(annot[c]) :
                annot[c][i].name = curCall.name <=>
                    \E k \in 1..Len(curCall.genes) :
                        curCall.genes[k] = [chr |-> c, ix |-> i]
    /\ curCall.op = "geneList" =>
          /\ ~curCall.absent
          /\ curCall.raised <=> curCall.chr \notin DOMAIN annot

\* getGene has returned None for a name that no gene of a non-empty index has.
C19_Witness ==
    /\ curCall.op = "getGene" /\ curCall.absent
    /\ geneDict.built
    /\ DOMAIN geneDict.dict # {}

(***************************************************************************)
(* Annotations.Annotation.addChild                                         *)
(***************************************************************************)

MaxKids     == 4    \* addChild is called at most MaxKids times on the node
MaxKidStart == 3    \* a child's start is in 1..MaxKidStart

\* list.sort(key=lambda x: x.start): Python's sort is stable.  st maps a child
\* to its start.
RECURSIVE InsertStable(_, _, _)
InsertStable(s, x, st) ==
    IF s = <<>> THEN <<x>>
    ELSE IF st[Head(s)] <= st[x] THEN <<Head(s)>> \o InsertStable(Tail(s), x, st)
    ELSE <<x>> \o s

RECURSIVE SortStable(_, _)
SortStable(s, st) ==
    IF s = <<>> THEN <<>>
    ELSE InsertStable(SortStable(SubSeq(s, 1, Len(s) - 1), st), s[Len(s)], st)

\* The branch of addChild that a child takes.
addChildPath(children, child, st) ==
    IF children = <<>> THEN "first"
    ELSE IF st[child] >= st[children[Len(children)]] THEN "append"
    ELSE IF st[child] <= st[children[1]] THEN "prepend"
    ELSE "sort"

\* addChild whose last branch appends and does not sort.
addChildNoSort(children, child, st) ==
    IF children = <<>> THEN <<child>>
    ELSE IF st[child] >= st[children[Len(children)]] THEN Append(children, child)
    ELSE IF st[child] <= st[children[1]] THEN <<child>> \o children
    ELSE Append(children, child)

\* Annotation.addChild(child): the children list it leaves.
addChild(children, child, st) ==
    IF children = <<>> THEN <<child>>
    ELSE IF st[child] >= st[children[Len(children)]] THEN Append(children, child)
    ELSE IF st[child] <= st[children[1]] THEN <<child>> \o children
    ELSE SortStable(Append(children, child), st)

\* Annotation.numChildren()
numChildren(children) == Len(children)

\* A children list (of ids) is in non-decreasing start order.
ChildrenSorted(children, st) ==
    \A i \in 1..(Len(children) - 1) : st[children[i]] <= st[children[i + 1]]

KidInit ==
    /\ OnlyKid
    /\ kidStart = <<>>
    /\ kids = <<>>
    /\ kidPath = "none"

\* node.addChild(Annotation(start, ...)) with a new child
CallAddChild ==
    \E s \in 1..MaxKidStart :
        /\ Len(kidStart) < MaxKids
        /\ LET child == Len(kidStart) + 1
               st    == Append(kidStart, s)
           IN  /\ kidStart' = st
               /\ kids' = addChild(kids, child, st)
               /\ kidPath' = addChildPath(kids, child, st)
        /\ UNCHANGED notKid

KidNext == CallAddChild

SpecAddChild == KidInit /\ [][KidNext]_vars

\* C6: after any sequence of addChild calls, whatever the order of the starts,
\* the children list is in non-decreasing start order and holds exactly the
\* inserted children, each once: numChildren is the number of calls.
C6_ChildrenSortedAndComplete ==
    /\ ChildrenSorted(kids, kidStart)
    /\ numChildren(kids) = Len(kidStart)
    /\ { kids[i] : i \in 1..Len(kids) } = 1..Len(kidStart)

\* The last call took the re-sort branch: the child went between two others.
C6_Witness ==
    /\ kidPath = "sort"
    /\ \E i \in 2..(Len(kids) - 1) : kids[i] = Len(kidStart)

(***************************************************************************)
(* Annotations.AnnotationList.initFromAlt, reading the records of one      *)
(* chromosome (chrEnt is that chromosome's top-level node)                 *)
(***************************************************************************)

MaxAltRecords == 3  \* at most MaxAltRecords exon records are read
MaxAltCoord   == 3  \* record coordinates are 1..MaxAltCoord

GeneNames == {"G1", "G2"}
TranNames == {"T1", "T2"}
TranIDs   == {"id1", "id2"}
NoField   == ""     \* the attribute is not in the record's attrs

\* updateStartEnd that takes the range handed in for the node's own.
updateStartEndReplaces(node, start, end) ==
    [node EXCEPT !.start = start, !.end = end]

\* Annotation.updateStartEnd(start, end) on a node record
updateStartEnd(node, start, end) ==
    [node EXCEPT !.start = IF @ > start THEN start ELSE @,
                 !.end   = IF @ < end THEN end ELSE @]

\* The start of every node of a node table, by id.
StartsOf(nodes) == [i \in 1..Len(nodes) |-> nodes[i].start]

AltInit ==
    /\ OnlyAlt
    /\ altGenes = <<>>
    /\ altTrans = <<>>
    /\ altExons = <<>>
    /\ chrKids = <<>>
    /\ geneKids = <<>>
    /\ tranKids = <<>>
    /\ geneEnt = 0
    /\ tranEnt = 0
    /\ altErr = ""

\* A raise leaves the constructor: no AnnotationList comes to exist, and the
\* half-built tree is not looked at again.
altRaise(msg) ==
    /\ altErr' = msg
    /\ UNCHANGED <<altGenes, altTrans, altExons, chrKids, geneKids, tranKids, geneEnt,
                   tranEnt>>

\* The loop body for a record of type "exon".  geneName is gene_name (or gene_id
\* when there is no gene_name), tranName and tranID are the transcript's name and
\* id after the defaulting of lines 322-329, exonNum is exon_number (0: no such
\* field).
altExonRecord(geneName, tranName, tranID, start, end, exonNum) ==
    LET newGene == geneEnt = 0 \/ geneName # altGenes[geneEnt].name
        g       == IF newGene THEN Len(altGenes) + 1 ELSE geneEnt
        genes1  == IF newGene
                   THEN Append(altGenes, [name |-> geneName, start |-> start, end |-> end])
                   ELSE [altGenes EXCEPT ![geneEnt] = updateStartEnd(@, start, end)]
        chr1    == IF newGene THEN addChild(chrKids, g, StartsOf(genes1)) ELSE chrKids
        gKids1  == IF newGene THEN Append(geneKids, <<>>) ELSE geneKids
        newTran == \/ tranEnt = 0
                   \/ tranName # altTrans[tranEnt].name
                   \/ tranID # altTrans[tranEnt].ID
        tr      == IF newTran THEN Len(altTrans) + 1 ELSE tranEnt
        trans1  == IF newTran
                   THEN Append(altTrans, [name |-> tranName, ID |-> tranID, start |-> start,
                                          end |-> end, length |-> 0])
                   ELSE [altTrans EXCEPT ![tranEnt] = updateStartEnd(@, start, end)]
        gKids2  == IF newTran
                   THEN [gKids1 EXCEPT ![g] = addChild(@, tr, StartsOf(trans1))]
                   ELSE gKids1
        tKids1  == IF newTran THEN Append(tranKids, <<>>) ELSE tranKids
        trans2  == [trans1 EXCEPT ![tr].length = @ + (end - start + 1)]
        ex      == Len(altExons) + 1
        exons1  == Append(altExons, [start |-> start, end |-> end])
    IN  IF geneName = NoField
        THEN altRaise("no gene_name/gene_id field")
        ELSE IF tranName = NoField
        THEN altRaise("no transcript_name/transcript_id field")
        ELSE IF exonNum # 0 /\ exonNum # numChildren(tKids1[tr]) + 1
        THEN altRaise("exons out of sequence")
        ELSE /\ altGenes' = genes1
             /\ chrKids' = chr1
             /\ geneEnt' = g
             /\ altTrans' = trans2
             /\ geneKids' = gKids2
             /\ tranEnt' = tr
             /\ altExons' = exons1
             /\ tranKids' = [tKids1 EXCEPT ![tr] = addChild(@, ex, StartsOf(exons1))]
             /\ altErr' = ""

\* One exon line of the file.
AltReadExon ==
    /\ altErr = ""
    /\ Len(altExons) < MaxAltRecords
    /\ \E geneName \in GeneNames \cup {NoField}, tranName \in TranNames \cup {NoField},
          tranID \in TranIDs, iv \in Intervals(MaxAltCoord), exonNum \in 0..MaxAltRecords :
            altExonRecord(geneName, tranName, tranID, iv.start, iv.end, exonNum)
    /\ UNCHANGED notAlt

\* One start_codon or stop_codon line: tranEnt.startcodon = start, which fails
\* on None; the codon attributes themselves are not modelled.
AltReadCodon ==
    /\ altErr = ""
    /\ IF tranEnt = 0
       THEN altRaise("'NoneType' object has no attribute")
       ELSE UNCHANGED altVars
    /\ UNCHANGED notAlt

AltNext == AltReadExon \/ AltReadCodon

SpecAlt == AltInit /\ [][AltNext]_vars

\* Node a's interval contains node b's.
Contains(a, b) == a.start <= b.start /\ b.end <= a.end

\* C7: while initFromAlt builds the index, the children of the chromosome node
\* and of every gene node are in ascending start order after every processed
\* record, for every order of exon records.
C7_AltChildrenSorted ==
    altErr = "" =>
        /\ ChildrenSorted(chrKids, StartsOf(altGenes))
        /\ \A g \in 1..Len(altGenes) : ChildrenSorted(geneKids[g], StartsOf(altTrans))

\* C8: after initFromAlt has consumed any sequence of exon records, every
\* gene's [start,end] contains each of its transcripts' and every transcript's
\* contains each of its exons', also when the gene name changes while the
\* transcript name and id stay.
C8_AltParentsContainChildren ==
    altErr = "" =>
        /\ \A g \in 1..Len(altGenes) : \A i \in 1..Len(geneKids[g]) :
              Contains(altGenes[g], altTrans[geneKids[g][i]])
        /\ \A tr \in 1..Len(altTrans) : \A i \in 1..Len(tranKids[tr]) :
              Contains(altTrans[tr], altExons[tranKids[tr][i]])

(***************************************************************************)
(* matchAnnot.matchTranscripts(readExons, gene).  The transcripts of the   *)
(* gene are met one by one in the first for loop; what the loop keeps of   *)
(* each is its score and the three Best trackers.  Best is the Best-of     *)
(* Tracker of the specification (section 4.5).                             *)
(***************************************************************************)

MaxExCoord == 4     \* exon coordinates are 1..MaxExCoord
MaxTrans   == 2     \* a gene has at most MaxTrans transcripts

\* The exons of a list do not overlap and are in ascending order: the exons of
\* a read come from one CIGAR string, those of a transcript from one GTF
\* transcript.
DisjointAscending(l) == \A i \in 1..(Len(l) - 1) : l[i].end < l[i + 1].start

\* The disjoint ascending exon lists (the empty one too) within lo..hi.
RECURSIVE ExonListsIn(_, _)
ExonListsIn(lo, hi) ==
    {<<>>} \cup
    UNION { { <<x>> \o rest : rest \in ExonListsIn(x.end + 1, hi) } :
            x \in { r \in [start : lo..hi, end : lo..hi] : r.start <= r.end } }

ExonLists == ExonListsIn(1, MaxExCoord) \ {<<>>}

\* Best.update where an equal value replaces the held pair too.
BestUpdateLastWins(b, value, which) ==
    IF \/ ~b.held
       \/ (b.reverse /\ value <= b.value)
       \/ (~b.reverse /\ value >= b.value)
    THEN [b EXCEPT !.held = TRUE, !.value = value, !.which = which]
    ELSE b

\* Best.update(value, which): the held pair is replaced iff nothing is held or
\* value is strictly better than the held value.
BestUpdate(b, value, which) ==
    IF \/ ~b.held
       \/ (b.reverse /\ value < b.value)
       \/ (~b.reverse /\ value > b.value)
    THEN [b EXCEPT !.held = TRUE, !.value = value, !.which = which]
    ELSE b

\* The loop of canMatch without "if len(group) > 1: return False": of [3,4] the
\* first index is taken.
RECURSIVE CanMatchLoopAllowsSplit(_, _, _, _)
CanMatchLoopAllowsSplit(over, i, last, hit) ==
    IF i > Len(over) THEN hit
    ELSE IF Len(over[i]) >= 1
         THEN IF over[i][1] <= last THEN FALSE
              ELSE CanMatchLoopAllowsSplit(over, i + 1, over[i][1], TRUE)
    ELSE CanMatchLoopAllowsSplit(over, i + 1, last, hit)

\* The loop of canMatch with < for <=: [4] [4] passes.
RECURSIVE CanMatchLoopAllowsRepeat(_, _, _, _)
CanMatchLoopAllowsRepeat(over, i, last, hit) ==
    IF i > Len(over) THEN hit
    ELSE IF Len(over[i]) > 1 THEN FALSE
    ELSE IF Len(over[i]) = 1
         THEN IF over[i][1] < last THEN FALSE
              ELSE CanMatchLoopAllowsRepeat(over, i + 1, over[i][1], TRUE)
    ELSE CanMatchLoopAllowsRepeat(over, i + 1, last, hit)

\* canMatch(over): last is the index of the last group met (0 before the first)
RECURSIVE CanMatchLoop(_, _, _, _)
CanMatchLoop(over, i, last, hit) ==
    IF i > Len(over) THEN hit
    ELSE IF Len(over[i]) > 1 THEN FALSE
    ELSE IF Len(over[i]) = 1
         THEN IF over[i][1] <= last THEN FALSE
              ELSE CanMatchLoop(over, i + 1, over[i][1], TRUE)
    ELSE CanMatchLoop(over, i + 1, last, hit)

\* canMatch that does not ask for a hit: it starts with True.
canMatchWithoutHit(over) == CanMatchLoop(over, 1, 0, TRUE)

canMatch(over) == CanMatchLoop(over, 1, 0, FALSE)

\* isMatch without the comparison of the two lengths.
isMatchAnyLength(over1, over2) ==
    \A ix \in 1..Len(over1) : Len(over1[ix]) = 1 /\ over1[ix][1] = ix

\* isMatch(over1, over2)
isMatch(over1, over2) ==
    /\ Len(over1) = Len(over2)
    /\ \A ix \in 1..Len(over1) : Len(over1[ix]) = 1 /\ over1[ix][1] = ix

\* internalMatch that compares the end of the last exon too.
internalMatchAllEnds(l1, l2) ==
    /\ \A ix \in 2..Len(l1) : l1[ix].start = l2[ix].start
    /\ \A ix \in 1..Len(l1) : l1[ix].end = l2[ix].end

\* internalMatch(list1, list2), called after isMatch: the lists are equally long
internalMatch(l1, l2) ==
    /\ \A ix \in 2..Len(l1) : l1[ix].start = l2[ix].start
    /\ \A ix \in 1..(Len(l1) - 1) : l1[ix].end = l2[ix].end

Abs(x) == IF x < 0 THEN -x ELSE x

\* numHits = sum([len(x) == 1 for x in overR])
numHitsOf(overR) == Cardinality({ i \in 1..Len(overR) : Len(overR[i]) = 1 })

\* trunc = abs(readExons[0].start - tranExons[0].start)
\*       + abs(readExons[-1].end - tranExons[-1].end)
truncOf(rd, tr) ==
    Abs(rd[1].start - tr[1].start) + Abs(rd[Len(rd)].end - tr[Len(tr)].end)

\* What one pass of the first loop's body computes for a transcript: whether it
\* can match, its score, and the numHits and trunc handed to the trackers
\* (-1 where the code computes none).  Kept with them, for the properties: whether
\* any read exon overlaps a transcript exon (overlaps), whether isMatch holds of
\* the overlap lists by itself (full), and whether internalMatch holds too
\* (internal).
classify(rd, tr) ==
    LET over == findOverlaps(rd, tr)
        cm   == canMatch(over.over1)
        im   == cm /\ isMatch(over.over1, over.over2)
        inm  == im /\ internalMatch(rd, tr)
        full == isMatch(over.over1, over.over2)
    IN  [ score |-> IF ~cm THEN 0 ELSE IF ~im THEN 1 ELSE IF ~inm THEN 3 ELSE 4,
          hits  |-> IF cm THEN numHitsOf(over.over1) ELSE -1,
          trunc |-> IF inm THEN truncOf(rd, tr) ELSE -1,
          overlaps |-> \E i \in 1..Len(over.over1) : over.over1[i] # <<>>,
          full     |-> full,
          internal |-> full /\ internalMatch(rd, tr) ]

\* bestScore = best.Best()
\* bestTrunc = best.Best(reverse=True), and the same without reverse
\* bestHits  = best.Best(), and the same with reverse
bestScoreInit == NewBest(FALSE)

bestTruncInitNotReverse == NewBest(FALSE)

bestTruncInit == NewBest(TRUE)

bestHitsInitReverse == NewBest(TRUE)

bestHitsInit == NewBest(FALSE)

MtInit ==
    /\ OnlyMt
    /\ readExons \in ExonLists
    /\ mtPc = "loop"
    /\ mtPre = <<>>
    /\ scores = <<>>
    /\ bestScore = bestScoreInit
    /\ bestTrunc = bestTruncInit
    /\ bestHits = bestHitsInit
    /\ mtRet = NoReturn

\* The body of "for ix, tran in enumerate(gene)" (lines 273-297) for the
\* transcript of 1-based index ix, classified as c: what it makes of the scores
\* list and of the three trackers.
loopBody(st, c, ix) ==
    [ scores    |-> Append(st.scores, c.score),
      bestHits  |-> IF c.score >= 1 THEN BestUpdate(st.bestHits, c.hits, ix)
                                    ELSE st.bestHits,
      bestTrunc |-> IF c.score = 4 THEN BestUpdate(st.bestTrunc, c.trunc, ix)
                                   ELSE st.bestTrunc,
      bestScore |-> BestUpdate(st.bestScore, c.score, ix) ]

\* One pass of "for ix, tran in enumerate(gene)" (lines 271-297).
MatchNextTranscript ==
    /\ mtPc = "loop"
    /\ Len(scores) < MaxTrans
    /\ \E tranExons \in ExonLists :
          LET c  == classify(readExons, tranExons)
              st == loopBody([scores |-> scores, bestHits |-> bestHits,
                              bestTrunc |-> bestTrunc, bestScore |-> bestScore],
                             c, Len(scores) + 1)
          IN  /\ bestHits' = st.bestHits
              /\ bestTrunc' = st.bestTrunc
              /\ bestScore' = st.bestScore
              /\ scores' = st.scores
              /\ mtPre' = Append(mtPre, c)
    /\ UNCHANGED <<readExons, mtPc, mtRet, notMt>>

\* The promotion with "if bestHits holds a value" for "elif bestScore.value == 1":
\* the second promotion follows the first.
promoteBothTiers(sc, bs, bt, bh) ==
    LET sc5 == IF bs.value = 4 THEN [sc EXCEPT ![bt.which] = 5] ELSE sc
        bs5 == IF bs.value = 4 THEN BestUpdate(bs, 5, bt.which) ELSE bs
    IN  IF bh.held
        THEN [scores |-> [sc5 EXCEPT ![bh.which] = 2], bestScore |-> BestUpdate(bs5, 2, bh.which)]
        ELSE [scores |-> sc5, bestScore |-> bs5]

\* The promotion with "elif bestScore.value >= 1 and bestScore.value < 4".
promoteBelowFour(sc, bs, bt, bh) ==
    IF bs.value = 4
    THEN [scores |-> [sc EXCEPT ![bt.which] = 5], bestScore |-> BestUpdate(bs, 5, bt.which)]
    ELSE IF bs.value >= 1
    THEN [scores |-> [sc EXCEPT ![bh.which] = 2], bestScore |-> BestUpdate(bs, 2, bh.which)]
    ELSE [scores |-> sc, bestScore |-> bs]

\* The promotion without the two bestScore.update calls.
promoteWithoutUpdate(sc, bs, bt, bh) ==
    IF bs.value = 4
    THEN [scores |-> [sc EXCEPT ![bt.which] = 5], bestScore |-> bs]
    ELSE IF bs.value = 1
    THEN [scores |-> [sc EXCEPT ![bh.which] = 2], bestScore |-> bs]
    ELSE [scores |-> sc, bestScore |-> bs]

\* The promotion without its elif branch: no 1 is promoted to 2.
promoteFourOnly(sc, bs, bt, bh) ==
    IF bs.value = 4
    THEN [scores |-> [sc EXCEPT ![bt.which] = 5], bestScore |-> BestUpdate(bs, 5, bt.which)]
    ELSE [scores |-> sc, bestScore |-> bs]

\* Lines 299-304: the promotion.  The scores list and bestScore it leaves.
promote(sc, bs, bt, bh) ==
    IF bs.value = 4
    THEN [scores |-> [sc EXCEPT ![bt.which] = 5], bestScore |-> BestUpdate(bs, 5, bt.which)]
    ELSE IF bs.value = 1
    THEN [scores |-> [sc EXCEPT ![bh.which] = 2], bestScore |-> BestUpdate(bs, 2, bh.which)]
    ELSE [scores |-> sc, bestScore |-> bs]

\* The gene's transcripts are exhausted: promotion, then the return of
\* (gene[bestScore.which], scores[bestScore.which]) (lines 299-326).
PromoteAndReturn ==
    /\ mtPc = "loop"
    /\ Len(scores) >= 1
    /\ LET p == promote(scores, bestScore, bestTrunc, bestHits)
       IN  /\ scores' = p.scores
           /\ bestScore' = p.bestScore
           /\ mtRet' = [tran |-> p.bestScore.which, score |-> p.scores[p.bestScore.which]]
    /\ mtPc' = "done"
    /\ UNCHANGED <<readExons, mtPre, bestTrunc, bestHits, notMt>>

\* A gene whose children is None: enumerate(gene) indexes None and raises
\* TypeError before the loop body runs.
GeneWithoutTranscripts ==
    /\ mtPc = "loop"
    /\ Len(scores) = 0
    /\ mtPc' = "error"
    /\ UNCHANGED <<readExons, mtPre, scores, bestScore, bestTrunc, bestHits, mtRet, notMt>>

MtNext == MatchNextTranscript \/ PromoteAndReturn \/ GeneWithoutTranscripts

\* The first for loop of matchTranscripts run over the transcripts from ix on.
RECURSIVE MatchLoop(_, _, _, _)
MatchLoop(rd, trans, ix, st) ==
    IF ix > Len(trans) THEN st
    ELSE MatchLoop(rd, trans, ix + 1, loopBody(st, classify(rd, trans[ix]), ix))

\* matchTranscripts(readExons, gene) as one call: trans is the gene's children,
\* each transcript given by its exons.  The call raises TypeError on a gene
\* whose children is None, and otherwise returns (index of the best transcript,
\* its score).
matchTranscripts(rd, trans) ==
    IF trans = <<>> THEN [raised |-> TRUE, tran |-> 0, score |-> 0]
    ELSE LET st == MatchLoop(rd, trans, 1,
                             [scores |-> <<>>, bestHits |-> bestHitsInit,
                              bestTrunc |-> bestTruncInit, bestScore |-> bestScoreInit])
             p  == promote(st.scores, st.bestScore, st.bestTrunc, st.bestHits)
         IN  [raised |-> FALSE, tran |-> p.bestScore.which,
              score |-> p.scores[p.bestScore.which]]

SpecMatch == MtInit /\ [][MtNext]_vars

\* The transcripts the loop classified with score s.
PreScored(s) == { i \in 1..Len(mtPre) : mtPre[i].score = s }

\* The lowest-indexed transcript of the non-empty set S with the smallest key.
FirstMin(S, key(_)) ==
    CHOOSE i \in S : \A j \in S : key(i) < key(j) \/ (key(i) = key(j) /\ i <= j)

\* The lowest-indexed transcript of the non-empty set S with the greatest key.
FirstMax(S, key(_)) ==
    CHOOSE i \in S : \A j \in S : key(i) > key(j) \/ (key(i) = key(j) /\ i <= j)

TruncAt(i) == mtPre[i].trunc
HitsAt(i)  == mtPre[i].hits

\* C9: whenever at least one transcript of the gene classifies as score 4,
\* exactly the score-4 transcript with the smallest truncation distance (the
\* lowest-indexed one on ties) ends with score 5, every other transcript keeps
\* its score, and that transcript is returned with score 5.
C9_BestFourPromoted ==
    (mtPc = "done" /\ PreScored(4) # {}) =>
        LET w == FirstMin(PreScored(4), TruncAt)
        IN  /\ scores[w] = 5
            /\ \A i \in (1..Len(scores)) \ {w} : scores[i] = mtPre[i].score
            /\ mtRet = [tran |-> w, score |-> 5]

\* A later transcript that matches the read exactly (distance 0) has been
\* promoted over an earlier score-4 transcript with a nonzero distance.
C9_Witness ==
    /\ mtPc = "done"
    /\ \E i, j \in PreScored(4) :
          i < j /\ TruncAt(i) > 0 /\ TruncAt(j) = 0 /\ scores[j] = 5 /\ scores[i] = 4

\* C10 as stated: in every gene with a transcript classified as score 1, the
\* score-1 transcript with the most overlapping exon pairs (lowest index on
\* ties) ends with score 2, also when other transcripts scored 3 or 4.
C10_BestOnePromotedAlways ==
    (mtPc = "done" /\ PreScored(1) # {}) =>
        scores[FirstMax(PreScored(1), HitsAt)] = 2

\* C10 as amended: when the highest score the loop gave is 1, the score-1
\* transcript with the most overlapping exon pairs (lowest index on ties) ends
\* with score 2 and every other transcript keeps its score; when a transcript
\* scored 3 or 4, no transcript ends with score 2.
C10_BestOnePromotedWhenTop ==
    mtPc = "done" =>
        /\ (PreScored(1) # {} /\ PreScored(3) = {} /\ PreScored(4) = {}) =>
              LET w == FirstMax(PreScored(1), HitsAt)
              IN  /\ scores[w] = 2
                  /\ \A i \in (1..Len(scores)) \ {w} : scores[i] = mtPre[i].score
                  /\ mtRet = [tran |-> w, score |-> 2]
        /\ (PreScored(3) # {} \/ PreScored(4) # {}) =>
              \A i \in 1..Len(scores) : scores[i] # 2

\* The second of two score-1 transcripts overlaps more exons of the read than
\* the first and has been promoted to 2.
C10_Witness ==
    /\ mtPc = "done"
    /\ PreScored(3) = {} /\ PreScored(4) = {}
    /\ \E i, j \in PreScored(1) :
          i < j /\ HitsAt(j) > HitsAt(i) /\ scores[j] = 2 /\ scores[i] = 1

\* The transcripts whose final score is s.
FinalScored(s) == { i \in 1..Len(scores) : scores[i] = s }

ScoreAt(i) == scores[i]

\* C11: after the promotion step at most one transcript of the gene has final
\* score 5 and at most one has final score 2, and no transcript receives both
\* promotions: the only score that differs from what the loop gave is that of
\* one transcript, raised from 4 to 5 or from 1 to 2.
C11_AtMostOnePromotion ==
    mtPc = "done" =>
        /\ Cardinality(FinalScored(5)) <= 1
        /\ Cardinality(FinalScored(2)) <= 1
        /\ Cardinality({ i \in 1..Len(scores) : scores[i] # mtPre[i].score }) <= 1
        /\ \A i \in 1..Len(scores) :
              scores[i] # mtPre[i].score =>
                  \/ (mtPre[i].score = 4 /\ scores[i] = 5)
                  \/ (mtPre[i].score = 1 /\ scores[i] = 2)

\* Two transcripts classified 4 at the same truncation distance: the first has
\* been promoted, the second has not.
C11_Witness ==
    /\ mtPc = "done"
    /\ \E i, j \in PreScored(4) :
          i < j /\ TruncAt(i) = TruncAt(j) /\ scores[i] = 5 /\ scores[j] = 4

\* C12: promotion never lowers a score; a transcript that passes the full
\* one-to-one test (isMatch) has final score >= 3 and one that also passes the
\* internal-coordinate test (internalMatch) has final score >= 4.
C12_PromotionNeverLowers ==
    \A i \in 1..Len(scores) :
        /\ scores[i] >= mtPre[i].score
        /\ mtPre[i].full => scores[i] >= 3
        /\ mtPre[i].internal => scores[i] >= 4

\* A gene whose best transcript is a full match with differing internal
\* coordinates, next to a transcript that only overlaps: both keep their scores.
C12_Witness ==
    /\ mtPc = "done"
    /\ \E i, j \in 1..Len(scores) :
          /\ mtPre[i].full /\ ~mtPre[i].internal /\ scores[i] = 3
          /\ mtPre[j].score = 1 /\ scores[j] = 1

\* C13: matchTranscripts returns the transcript with the highest final score,
\* together with that score; among several with the highest final score it
\* returns the lowest-indexed one.
C13_ReturnsFirstHighest ==
    mtPc = "done" =>
        /\ mtRet.tran = FirstMax(1..Len(scores), ScoreAt)
        /\ mtRet.score = scores[mtRet.tran]

\* The second transcript has been promoted to 5 over the first and is returned.
C13_Witness ==
    /\ mtPc = "done"
    /\ Len(scores) >= 2
    /\ scores[1] = 4 /\ scores[2] = 5
    /\ mtRet = [tran |-> 2, score |-> 5]

\* No transcript met by the loop overlaps any exon of the read.
NoneOverlaps == \A i \in 1..Len(mtPre) : ~mtPre[i].overlaps

\* C14 as stated: when no transcript of the gene overlaps any exon of the read,
\* every transcript scores 0 and the gene's tracker holds no value.
C14_NoOverlapHoldsNothing ==
    (mtPc = "done" /\ NoneOverlaps) =>
        /\ \A i \in 1..Len(scores) : scores[i] = 0
        /\ ~bestScore.held

\* C14 as amended: when no transcript of the gene overlaps any exon of the read,
\* every transcript scores 0, bestScore holds the value 0 with the first
\* transcript, which is returned with score 0, and bestTrunc and bestHits hold
\* no value.
C14_NoOverlapHoldsZero ==
    (mtPc = "done" /\ NoneOverlaps) =>
        /\ \A i \in 1..Len(scores) : scores[i] = 0
        /\ bestScore.held /\ bestScore.value = 0 /\ bestScore.which = 1
        /\ ~bestTrunc.held
        /\ ~bestHits.held
        /\ mtRet = [tran |-> 1, score |-> 0]

\* A gene of two transcripts neither of which overlaps the read has returned.
C14_Witness ==
    /\ mtPc = "done"
    /\ Len(scores) = 2
    /\ NoneOverlaps

\* C27: matchTranscripts never returns score 1 or 4: for a gene with at least
\* one transcript the returned score is in {0,2,3,5}, it is 0 exactly when no
\* transcript is matchable, and the returned transcript's entry in the scores
\* list equals the returned score.
C27_ReturnedScoreNeverOneOrFour ==
    mtPc = "done" =>
        /\ mtRet.score \in {0, 2, 3, 5}
        /\ mtRet.score = 0 <=> (\A i \in 1..Len(mtPre) : mtPre[i].score = 0)
        /\ mtRet.tran \in 1..Len(scores)
        /\ scores[mtRet.tran] = mtRet.score

\* A gene of two transcripts, the first not matchable and the second scored 1
\* by the loop: the second is returned, with score 2.
C27_Witness ==
    /\ mtPc = "done"
    /\ Len(mtPre) = 2
    /\ mtPre[1].score = 0 /\ mtPre[2].score = 1
    /\ mtRet = [tran |-> 2, score |-> 2]

(***************************************************************************)
(* matchTranscripts on a gene of one transcript, with the lists handed to  *)
(* findOverlaps and its result kept: list1 is readExons, list2 the         *)
(* transcript's exons, ovFwd is (overR, overT).                            *)
(***************************************************************************)

\* The first while loop of showCoords from (ixR, ixT) on, then the two loops
\* for the stragglers.  ixR and ixT are 1-based here; steps counts the passes.
RECURSIVE ShowWalk(_, _, _, _, _, _, _)
ShowWalk(rd, tr, overR, overT, ixR, ixT, steps) ==
    IF ixR <= Len(overR) /\ ixT <= Len(overT)
    THEN IF overR[ixR] = <<>> /\ overT[ixT] = <<>>
         THEN IF rd[ixR].start < tr[ixT].start
              THEN ShowWalk(rd, tr, overR, overT, ixR + 1, ixT, steps + 1)
              ELSE ShowWalk(rd, tr, overR, overT, ixR, ixT + 1, steps + 1)
         ELSE IF overR[ixR] = <<>>
         THEN ShowWalk(rd, tr, overR, overT, ixR + 1, ixT, steps + 1)
         ELSE IF overT[ixT] = <<>>
         THEN ShowWalk(rd, tr, overR, overT, ixR, ixT + 1, steps + 1)
         ELSE IF overR[ixR][1] = ixT /\ overT[ixT][1] = ixR
         THEN ShowWalk(rd, tr, overR, overT, ixR + 1, ixT + 1, steps + 1)
         ELSE [called |-> TRUE, raised |-> TRUE, ixR |-> ixR - 1, ixT |-> ixT - 1,
               steps |-> steps]
    ELSE [called |-> TRUE, raised |-> FALSE, ixR |-> Len(overR), ixT |-> Len(overT),
          steps |-> steps + (Len(overR) + 1 - ixR) + (Len(overT) + 1 - ixT)]

\* showCoords(readExons, tranExons): RuntimeError("improper overlap") is raised.
showCoords(rd, tr) ==
    ShowWalk(rd, tr, findOverlaps(rd, tr).over1, findOverlaps(rd, tr).over2, 1, 1, 0)

ScoreInit ==
    /\ OnlyScore
    /\ OvIdle
    /\ shown = NotShown
    /\ readExons \in ExonLists
    /\ mtPc = "loop"
    /\ mtPre = <<>>
    /\ scores = <<>>
    /\ bestScore = bestScoreInit
    /\ bestTrunc = bestTruncInit
    /\ bestHits = bestHitsInit
    /\ mtRet = NoReturn

\* Lines 273-297 for the gene's first transcript.
ScoreFirstTranscript ==
    /\ mtPc = "loop"
    /\ scores = <<>>
    /\ \E tranExons \in ExonLists :
          LET c  == classify(readExons, tranExons)
              st == loopBody([scores |-> scores, bestHits |-> bestHits,
                              bestTrunc |-> bestTrunc, bestScore |-> bestScore],
                             c, 1)
          IN  /\ list1' = readExons
              /\ list2' = tranExons
              /\ ovFwd' = Returned(findOverlaps(readExons, tranExons))
              /\ bestHits' = st.bestHits
              /\ bestTrunc' = st.bestTrunc
              /\ bestScore' = st.bestScore
              /\ scores' = st.scores
              /\ mtPre' = Append(mtPre, c)
    /\ UNCHANGED <<ovRev, readExons, mtPc, mtRet, shown, notScore>>

\* Lines 299-326 for a gene of one transcript: the promotion, the print loop with
\* its showCoords call for a score of 2 or more, and the return.
ScorePromoteAndPrint ==
    /\ mtPc = "loop"
    /\ Len(scores) = 1
    /\ LET p == promote(scores, bestScore, bestTrunc, bestHits)
           c == IF p.scores[1] >= 2 THEN showCoords(readExons, list2) ELSE NotShown
       IN  /\ scores' = p.scores
           /\ bestScore' = p.bestScore
           /\ shown' = c
           /\ IF c.raised
              THEN mtPc' = "error" /\ UNCHANGED mtRet
              ELSE /\ mtPc' = "done"
                   /\ mtRet' = [tran |-> p.bestScore.which,
                                score |-> p.scores[p.bestScore.which]]
    /\ UNCHANGED <<list1, list2, ovFwd, ovRev, readExons, mtPre, bestTrunc, bestHits,
                   notScore>>

ScoreNext == ScoreFirstTranscript \/ ScorePromoteAndPrint

SpecScore == ScoreInit /\ [][ScoreNext]_vars

\* The first transcript has been scored, and the promotion has not been made.
Scored == Len(scores) = 1 /\ ovFwd.done /\ mtPc = "loop"

\* No read exon overlaps more than one transcript exon.
NoReadExonSplit(overR) == \A i \in 1..Len(overR) : Len(overR[i]) <= 1

\* The transcript-exon indices of the read exons that overlap are strictly
\* increasing with the read-exon index.
IndicesIncrease(overR) ==
    \A i, j \in 1..Len(overR) :
        (i < j /\ overR[i] # <<>> /\ overR[j] # <<>>) =>
            \A a \in 1..Len(overR[i]), b \in 1..Len(overR[j]) : overR[i][a] < overR[j][b]

SomeReadExonOverlaps(overR) == \E i \in 1..Len(overR) : overR[i] # <<>>

Matchable(overR) ==
    NoReadExonSplit(overR) /\ IndicesIncrease(overR) /\ SomeReadExonOverlaps(overR)

\* C23: canMatch(overR) is true iff no read exon overlaps more than one
\* transcript exon, the transcript-exon indices of the overlapping read exons are
\* strictly increasing, and at least one read exon overlaps; when it is false
\* the transcript's score is 0.
C23_CanMatchIffMatchable ==
    Scored =>
        /\ canMatch(ovFwd.over1) <=> Matchable(ovFwd.over1)
        /\ (mtPre[1].score # 0) <=> Matchable(ovFwd.over1)
        /\ scores[1] = mtPre[1].score

\* A transcript that no read exon splits over, with two read exons on the same
\* transcript exon: not matchable, score 0.
C23_Witness ==
    /\ Scored
    /\ NoReadExonSplit(ovFwd.over1)
    /\ ~IndicesIncrease(ovFwd.over1)
    /\ scores[1] = 0

\* Full one-to-one: as many read exons as transcript exons, read exon i
\* overlaps exactly transcript exon i, and transcript exon i exactly read exon i.
FullOneToOne(overR, overT) ==
    /\ Len(overR) = Len(overT)
    /\ \A i \in 1..Len(overR) : overR[i] = <<i>> /\ overT[i] = <<i>>

\* The internal coordinates coincide: every exon start but the first exon's and
\* every exon end but the last exon's.
InternalCoincide(rd, tr) ==
    \A i \in 1..Len(rd) :
        /\ i # 1 => rd[i].start = tr[i].start
        /\ i # Len(rd) => rd[i].end = tr[i].end

\* The score the decision sequence of the specification gives.
DecidedScore(rd, tr, overR, overT) ==
    IF ~Matchable(overR) THEN 0
    ELSE IF ~FullOneToOne(overR, overT) THEN 1
    ELSE IF ~InternalCoincide(rd, tr) THEN 3
    ELSE 4

\* C24: before promotion a transcript's score is 0 if it is not matchable, 1 if
\* it is matchable but no full one-to-one match, 3 if it is a full one-to-one
\* match whose internal coordinates differ, 4 if they coincide; no other value
\* occurs.
C24_PrePromotionScore ==
    Scored =>
        /\ scores[1] \in {0, 1, 3, 4}
        /\ scores[1] = DecidedScore(list1, list2, ovFwd.over1, ovFwd.over2)

\* A read of one exon that overlaps the first of a transcript's two exons and
\* nothing else: matchable, not a full match, score 1.
C24_Witness ==
    /\ Scored
    /\ Len(list1) = 1
    /\ Len(list2) = 2
    /\ ovFwd.over1 = << <<1>> >>
    /\ scores[1] = 1

\* C25: for a full one-to-one pair of exon lists, internalMatch holds iff every
\* read exon start but the first equals the transcript exon's start and every
\* read exon end but the last equals the transcript exon's end; a one-exon read
\* against a one-exon transcript passes for any boundaries.
C25_InternalMatchSkipsOuterEnds ==
    (Scored /\ FullOneToOne(ovFwd.over1, ovFwd.over2)) =>
        /\ internalMatch(list1, list2) <=> InternalCoincide(list1, list2)
        /\ (scores[1] = 4) <=> InternalCoincide(list1, list2)
        /\ Len(list1) = 1 => scores[1] = 4

\* A full one-to-one pair of two exons each that scores 4 while the first
\* exons' starts differ and the last exons' ends differ.
C25_Witness ==
    /\ Scored
    /\ FullOneToOne(ovFwd.over1, ovFwd.over2)
    /\ Len(list1) = 2
    /\ list1[1].start # list2[1].start
    /\ list1[2].end # list2[2].end
    /\ scores[1] = 4

\* C28: for a transcript whose final score is 2 or more, showCoords is called,
\* walks both exon lists to their ends and does not raise the improper overlap
\* error; the walk ends after at most len(read exons) + len(transcript exons)
\* passes of its loops.
C28_ShowCoordsNeverRaises ==
    /\ mtPc # "error"
    /\ mtPc = "done" =>
          /\ shown.called <=> scores[1] >= 2
          /\ shown.called =>
                /\ ~shown.raised
                /\ shown.ixR = Len(list1)
                /\ shown.ixT = Len(list2)
                /\ shown.steps <= Len(list1) + Len(list2)

\* showCoords has walked a read and a transcript in which an exon of each
\* matches the other, and an exon of each has no match.
C28_Witness ==
    /\ mtPc = "done"
    /\ shown.called
    /\ shown.steps < Len(list1) + Len(list2)
    /\ \E i \in 1..Len(ovFwd.over1) : ovFwd.over1[i] = <<>>
    /\ \E j \in 1..Len(ovFwd.over2) : ovFwd.over2[j] = <<>>

(***************************************************************************)
(* Best: one tracker receiving update calls.  The payload of a call is the *)
(* call's ordinal, so that the payload held tells which call it came from. *)
(***************************************************************************)

MaxBestValue == 2   \* the values handed to update are 0..MaxBestValue
MaxUpdates   == 4   \* update is called at most MaxUpdates times

\* b = Best() or b = Best(reverse=True)
TrkInit ==
    /\ OnlyTrk
    /\ \E reverse \in BOOLEAN : trk = NewBest(reverse)
    /\ trkLog = <<>>

\* b.update(value, which)
CallUpdate ==
    /\ Len(trkLog) < MaxUpdates
    /\ \E value \in 0..MaxBestValue :
          LET which == Len(trkLog) + 1
          IN  /\ trk' = BestUpdate(trk, value, which)
              /\ trkLog' = Append(trkLog, [value |-> value, which |-> which])
    /\ UNCHANGED notTrk

TrkNext == CallUpdate

SpecBest == TrkInit /\ [][TrkNext]_vars

\* value a is strictly better than value b for the tracker t.
Better(t, a, b) == IF t.reverse THEN a < b ELSE a > b

ValueAt(i) == trkLog[i].value

\* C15: before any update the tracker reports no value; after any sequence of
\* updates it holds the extreme value handed in (greatest, or smallest when
\* reverse) with the payload of the first update that reached it; an update
\* replaces the held pair iff nothing is held or its value is strictly better.
C15_HoldsFirstExtreme ==
    /\ [](IF trkLog = <<>>
          THEN ~trk.held
          ELSE LET first == IF trk.reverse THEN FirstMin(1..Len(trkLog), ValueAt)
                                           ELSE FirstMax(1..Len(trkLog), ValueAt)
               IN  /\ trk.held
                   /\ trk.value = trkLog[first].value
                   /\ trk.which = trkLog[first].which)
    /\ [][ trkLog' # trkLog =>
              LET u == trkLog'[Len(trkLog')]
              IN  IF ~trk.held \/ Better(trk, u.value, trk.value)
                  THEN trk'.held /\ trk'.value = u.value /\ trk'.which = u.which
                  ELSE trk' = trk
         ]_vars

\* The tracker keeps the first of two equal extreme values: the value of the
\* last update equals the held one and the held payload is an earlier update's.
C15_Witness ==
    /\ Len(trkLog) >= 3
    /\ trkLog[Len(trkLog)].value = trk.value
    /\ trk.which > 1
    /\ trk.which < Len(trkLog)

(***************************************************************************)
(* Annotation.updateStartEnd: one node, with its children, receiving calls *)
(***************************************************************************)

MaxUpdCoord == 2    \* the node's and the ranges' coordinates are 1..MaxUpdCoord
MaxUpdCalls == 3    \* updateStartEnd is called at most MaxUpdCalls times

\* Annotation(start, end, ...), with no child or with one already added
UpdInit ==
    /\ OnlyUpd
    /\ \E iv \in Intervals(MaxUpdCoord) :
       \E kidsThere \in {<<>>} \cup { <<k>> : k \in Intervals(MaxUpdCoord) } :
           updNode = [start |-> iv.start, end |-> iv.end, children |-> kidsThere]
    /\ updLog = <<>>

\* node.updateStartEnd(start, end)
CallUpdateStartEnd ==
    /\ Len(updLog) < MaxUpdCalls
    /\ \E r \in Intervals(MaxUpdCoord) :
          /\ updNode' = updateStartEnd(updNode, r.start, r.end)
          /\ updLog' = Append(updLog, r)
    /\ UNCHANGED notUpd

UpdNext == CallUpdateStartEnd

SpecUpdateStartEnd == UpdInit /\ [][UpdNext]_vars

Min2(a, b) == IF a < b THEN a ELSE b
Max2(a, b) == IF a > b THEN a ELSE b

\* C20: updateStartEnd(s, e) leaves start = min(old start, s) and
\* end = max(old end, e); after any sequence of calls the node's interval
\* contains every range passed in, it never shrinks, and the node's children
\* list is as it was.
C20_UpdateStartEndWidens ==
    /\ [](\A i \in 1..Len(updLog) : Contains(updNode, updLog[i]))
    /\ [][ updLog' # updLog =>
              LET r == updLog'[Len(updLog')]
              IN  /\ updNode'.start = Min2(updNode.start, r.start)
                  /\ updNode'.end = Max2(updNode.end, r.end)
                  /\ Contains(updNode', updNode)
                  /\ updNode'.children = updNode.children
         ]_vars

\* A node with a child has been widened beyond the ranges handed in: it starts
\* before the first of them and ends after the last.
C20_Witness ==
    /\ Len(updLog) >= 2
    /\ updNode.children # <<>>
    /\ updNode.start < updLog[1].start
    /\ updNode.end > updLog[Len(updLog)].end

(***************************************************************************)
(* matchAnnot.main: the loop over the lines of the SAM file (lines 79-223),*)
(* with the AnnotationList and the AnnotationCursor it walks.  A gene is   *)
(* [start, end, strand, trans]: trans is its children, each transcript     *)
(* given by its exons, and <<>> is a gene whose children is None.  A read  *)
(* is given by its exons: its start is the first exon's start and its end  *)
(* the last exon's end.                                                    *)
(***************************************************************************)

MaxMainCoord == 2   \* gene, exon and read coordinates are 1..MaxMainCoord
MaxMainGenes == 2   \* the chromosome holds at most MaxMainGenes genes
MaxMainTrans == 1   \* a gene has at most MaxMainTrans transcripts

\* The transcripts of a gene over [s,e]: exon lists that span the gene.
SpanningExonLists(s, e) ==
    { l \in ExonListsIn(s, e) : l # <<>> /\ l[1].start = s /\ l[Len(l)].end = e }

MainGenes ==
    UNION { { [start |-> iv.start, end |-> iv.end, strand |-> s, trans |-> tr] :
                s \in Strands,
                tr \in SeqsUpTo(SpanningExonLists(iv.start, iv.end), MaxMainTrans) } :
            iv \in Intervals(MaxMainCoord) }

MainGeneLists == { l \in SeqsUpTo(MainGenes, MaxMainGenes) : SortedByStart(l) }

\* The lines of the SAM file: unaligned reads (FLAG_NOT_ALIGNED), and aligned
\* reads on the chromosome of the index or on one that is not in it.
MainReads ==
    {[aligned |-> FALSE, chr |-> "*", strand |-> "+", exons |-> <<>>]} \cup
    { [aligned |-> TRUE, chr |-> c, strand |-> s, exons |-> x] :
        c \in Chrs, s \in Strands, x \in ExonListsIn(1, MaxMainCoord) \ {<<>>} } \cup
    {[aligned |-> TRUE, chr |-> UnknownChr, strand |-> "+", exons |-> <<[start |-> 1, end |-> 1]>>]}

readStart(read) == read.exons[1].start
readEnd(read)   == read.exons[Len(read.exons)].end

MainInit ==
    /\ OnlyMain
    /\ \E l \in MainGeneLists : annot = [c \in Chrs |-> l]
    /\ posit = [c \in Chrs |-> 0]
    /\ curCall = NoCall
    /\ lastPos = [c \in {} |-> 0]
    /\ mainPc = "lines"
    /\ mainRead = NoRead
    /\ mainLoop = NoLoop
    /\ mainOut = NoOutcome

\* "bestHit.which > 1" (line 192).  which is the payload of the tracker: None
\* while nothing is held, the list [curGene, bestTran] afterwards; Python 3
\* orders neither with an int, so the comparison raises TypeError either way.
whichGreaterThanOne(b) ==
    IF b.held THEN [raised |-> TRUE, value |-> FALSE]
              ELSE [raised |-> TRUE, value |-> FALSE]

\* The strands tried for a read aligned on strand: that strand first.
strandsToTry(strand) == <<strand, IF strand = "+" THEN "-" ELSE "+">>

\* The genes that getOverlappingGenes yields to the loop of the n-th strand
\* tried (their positions in the chromosome's list): the cursor does not move
\* while the loop runs.
yieldedFor(read, n) ==
    OverlapScan(annot[read.chr], posit[read.chr], readStart(read), readEnd(read),
                strandsToTry(read.strand)[n])

\* A line with FLAG_NOT_ALIGNED (lines 93-109): reported, and the loop goes on.
MainUnalignedLine ==
    /\ mainPc = "lines"
    /\ \E read \in MainReads :
          /\ ~read.aligned
          /\ mainRead' = read
          /\ mainOut' = [NoOutcome EXCEPT !.result = "no_alignment_found"]
    /\ UNCHANGED <<annot, posit, curCall, lastPos, mainPc, mainLoop, notMain>>

\* A line of an aligned read, up to the gene loop of the aligned strand (lines
\* 111-177): the sort check, advance, bestHit = best.Best().  An exception
\* leaves main.
MainAlignedLine ==
    /\ mainPc = "lines"
    /\ \E read \in MainReads :
          /\ read.aligned
          /\ mainRead' = read
          /\ IF read.chr \in DOMAIN lastPos /\ readStart(read) < lastPos[read.chr]
             THEN /\ mainOut' = [NoOutcome EXCEPT !.result = "not_sorted"]
                  /\ mainPc' = "error"
                  /\ UNCHANGED <<lastPos, posit, mainLoop>>
             ELSE /\ lastPos' = (read.chr :> readStart(read)) @@ lastPos
                  /\ IF geneListRaises(read.chr)
                     THEN /\ mainOut' = [NoOutcome EXCEPT !.result = "unknown_chromosome"]
                          /\ mainPc' = "error"
                          /\ UNCHANGED <<posit, mainLoop>>
                     ELSE /\ posit' = [posit EXCEPT ![read.chr] =
                                         AdvanceLoop(annot[read.chr], posit[read.chr],
                                                     readStart(read))]
                          /\ mainOut' = [NoOutcome EXCEPT !.searched = <<read.strand>>]
                          /\ mainLoop' = [n |-> 1, k |-> 1]
                          /\ mainPc' = "genes"
    /\ UNCHANGED <<annot, curCall, notMain>>

\* One pass of "for curGene in annotCursor.getOverlappingGenes(...)" (lines
\* 177-190): matchTranscripts on the next yielded gene, then bestHit.update.
MainMatchGene ==
    /\ mainPc = "genes"
    /\ mainLoop.k <= Len(yieldedFor(mainRead, mainLoop.n))
    /\ LET g == yieldedFor(mainRead, mainLoop.n)[mainLoop.k]
           r == matchTranscripts(mainRead.exons, annot[mainRead.chr][g].trans)
       IN  IF r.raised
           THEN /\ mainOut' = [mainOut EXCEPT !.result = "TypeError"]
                /\ mainPc' = "error"
                /\ UNCHANGED mainLoop
           ELSE /\ mainOut' =
                     [mainOut EXCEPT
                        !.matched = Append(@, [gene |-> g, tran |-> r.tran,
                                               score |-> r.score]),
                        !.bestHit = BestUpdate(@, r.score, [gene |-> g, tran |-> r.tran])]
                /\ mainLoop' = [mainLoop EXCEPT !.k = @ + 1]
                /\ UNCHANGED mainPc
    /\ UNCHANGED <<annot, posit, curCall, lastPos, mainRead, notMain>>

\* The gene loop of a strand has ended (lines 192-199): the test for a decent
\* match, then the other strand or the result.
MainEndOfStrand ==
    /\ mainPc = "genes"
    /\ mainLoop.k > Len(yieldedFor(mainRead, mainLoop.n))
    /\ LET o   == IF mainLoop.n = 1
                  THEN [mainOut EXCEPT !.afterFirst = [done |-> TRUE,
                                                       bestHit |-> mainOut.bestHit]]
                  ELSE mainOut
           cmp == whichGreaterThanOne(mainOut.bestHit)
       IN  IF cmp.raised
           THEN /\ mainOut' = [o EXCEPT !.result = "TypeError"]
                /\ mainPc' = "error"
                /\ UNCHANGED mainLoop
           ELSE IF cmp.value \/ mainLoop.n = 2
           THEN /\ mainOut' = [o EXCEPT !.result = IF mainOut.bestHit.held
                                                   THEN "result" ELSE "no_genes_found"]
                /\ mainPc' = "lines"
                /\ UNCHANGED mainLoop
           ELSE /\ mainOut' = [o EXCEPT !.searched =
                                          Append(@, strandsToTry(mainRead.strand)[2])]
                /\ mainLoop' = [n |-> 2, k |-> 1]
                /\ UNCHANGED mainPc
    /\ UNCHANGED <<annot, posit, curCall, lastPos, mainRead, notMain>>

MainNext == MainUnalignedLine \/ MainAlignedLine \/ MainMatchGene \/ MainEndOfStrand

SpecMain == MainInit /\ [][MainNext]_vars

\* The last line was an aligned read on a chromosome of the index that passed
\* the sort check: advance and the gene loop of the aligned strand have run.
ReadProcessed ==
    /\ mainRead.aligned
    /\ mainRead.chr \in DOMAIN annot
    /\ mainOut.result # "not_sorted"

\* C16: the genes of the aligned strand are tried first, and the opposite strand
\* is searched iff the best score held after the aligned-strand genes is not
\* greater than 1 (also when no gene was found there); when it is greater than
\* 1 the opposite strand is not searched.
C16_OppositeStrandIffNoDecentMatch ==
    (ReadProcessed /\ mainOut.afterFirst.done) =>
        LET b == mainOut.afterFirst.bestHit
        IN  /\ mainOut.searched[1] = mainRead.strand
            /\ (Len(mainOut.searched) = 2 /\ mainOut.searched[2] # mainRead.strand)
                  <=> ~(b.held /\ b.value > 1)

\* No gene of the chromosome at or after the cursor is overlapped by the read,
\* on either strand.
NoGeneOverlapped ==
    \A s \in Strands :
        OverlapScan(annot[mainRead.chr], posit[mainRead.chr], readStart(mainRead),
                    readEnd(mainRead), s) = <<>>

\* C17: the processing of an aligned, position-sorted read never ends in an
\* error; a read that overlaps no gene on either strand ends with
\* no_genes_found.
C17_ReadNeverErrors ==
    ReadProcessed =>
        /\ mainPc # "error"
        /\ mainPc = "lines" =>
              /\ mainOut.result \in {"result", "no_genes_found"}
              /\ NoGeneOverlapped => mainOut.result = "no_genes_found"

\* The gene loops of the last line, an aligned read on a chromosome of the
\* index that passed the sort check, have ended.
GeneLoopsEnded ==
    /\ mainRead.aligned
    /\ ~geneListRaises(mainRead.chr)
    /\ mainOut.result # "not_sorted"
    /\ mainPc # "genes"

\* C29: the sort error of an aligned read that starts before the aligned read
\* before it on its chromosome is raised before advance is called and before
\* any gene is matched for it; a read that passes the check leaves its start in
\* lastPos and main in the loop over the lines, where the next aligned read is
\* checked against it.
C29_SortCheckGuardsCursor ==
    /\ mainOut.result = "not_sorted" =>
          mainOut.searched = <<>> /\ mainOut.matched = <<>>
    /\ GeneLoopsEnded =>
          mainPc = "lines" /\ lastPos[mainRead.chr] = readStart(mainRead)

\* bestScore, the variable that line 222 hands to Cluster.best: the score that
\* the last matchTranscripts call of the read returned.
lastBestScore == mainOut.matched[Len(mainOut.matched)].score

\* C30: the score that main hands to Cluster.best together with the best gene
\* and transcript is the best-hit value, whatever the number and the order of
\* the genes examined for the read.
C30_SavedScoreIsBestHitValue ==
    (mainRead.aligned /\ mainOut.matched # <<>>) =>
        lastBestScore = mainOut.bestHit.value

(***************************************************************************)
(* splitSAM.main: the aligned reads of a SAM file are dealt out to         *)
(* numbered fasta files (tiledFasta), each read to the first file it fits. *)
(* A line is (chr, start, genomic length of its cigar string); the read    *)
(* name and the bases do not take part in where a read goes.  Header lines *)
(* change nothing and are left out.  The model begins at the loop over the *)
(* lines: the table for reverse-complementing the bases (line 51,          *)
(* string.maketrans, which Python 3 does not have) is not modelled.        *)
(***************************************************************************)

MaxSplitCoord == 2          \* start positions are 0..MaxSplitCoord
MaxSplitLen   == 2          \* cigar.genomicLength() is 0..MaxSplitLen
MaxSplitReads == 3          \* lines read (totReads)

SplitChrs == {"chr1", "chr2"}

SplitInit ==
    /\ OnlySplit
    /\ splitLastPos = [c \in {} |-> 0]
    /\ fastaList = <<>>
    /\ fastaNonAligned = NewFasta
    /\ splitTot = NoCounts
    /\ splitPc = "lines"

\* dict.get(chr, 0)
GetOrZero(dict, chr) == IF chr \in DOMAIN dict THEN dict[chr] ELSE 0

\* tiledFasta.fits with >= in the place of >.
fitsTouching(fasta, chr, start) == start >= GetOrZero(fasta.lastPos, chr)

\* tiledFasta.fits
fits(fasta, chr, start) == start > GetOrZero(fasta.lastPos, chr)

\* tiledFasta.addRead
addRead(fasta, chr, start, end) ==
    [lastPos |-> (chr :> end) @@ fasta.lastPos,
     reads   |-> Append(fasta.reads, [chr |-> chr, start |-> start, end |-> end])]

\* for fasta in fastaList: the index of the first file from ix on that the read
\* fits, 0 when the loop ends with found = False.
RECURSIVE firstFit(_, _, _, _)
firstFit(files, ix, chr, start) ==
    IF ix > Len(files) THEN 0
    ELSE IF fits(files[ix], chr, start) THEN ix
    ELSE firstFit(files, ix + 1, chr, start)

\* A read whose name holds |f1p0| is counted and skipped.
SplitUnsupportedLine ==
    /\ splitPc = "lines"
    /\ splitTot.totReads < MaxSplitReads
    /\ splitTot' = [splitTot EXCEPT !.totReads = @ + 1, !.totUnsup = @ + 1]
    /\ UNCHANGED <<splitLastPos, fastaList, fastaNonAligned, splitPc>>
    /\ UNCHANGED notSplit

\* A read flagged as not aligned goes to the nonaligned file.
SplitUnalignedLine ==
    /\ splitPc = "lines"
    /\ splitTot.totReads < MaxSplitReads
    /\ splitTot' = [splitTot EXCEPT !.totReads = @ + 1]
    /\ fastaNonAligned' = addRead(fastaNonAligned, "*", 0, 0)
    /\ UNCHANGED <<splitLastPos, fastaList, splitPc>>
    /\ UNCHANGED notSplit

\* An aligned read: the sort check, then the first file it fits, or a new file.
SplitAlignedLine ==
    /\ splitPc = "lines"
    /\ splitTot.totReads < MaxSplitReads
    /\ \E chr \in SplitChrs, start \in 0..MaxSplitCoord, glen \in 0..MaxSplitLen :
          LET end == start + glen - 1
              ix  == firstFit(fastaList, 1, chr, start)
          IN  /\ splitTot' = [splitTot EXCEPT !.totReads = @ + 1, !.totAlign = @ + 1]
              /\ IF start < GetOrZero(splitLastPos, chr)
                 THEN /\ splitPc' = "error"
                      /\ UNCHANGED <<splitLastPos, fastaList>>
                 ELSE /\ splitLastPos' = (chr :> start) @@ splitLastPos
                      /\ fastaList' =
                            IF ix # 0
                            THEN [fastaList EXCEPT ![ix] = addRead(@, chr, start, end)]
                            ELSE Append(fastaList, addRead(NewFasta, chr, start, end))
                      /\ UNCHANGED splitPc
    /\ UNCHANGED fastaNonAligned
    /\ UNCHANGED notSplit

SplitNext == SplitUnsupportedLine \/ SplitUnalignedLine \/ SplitAlignedLine

SpecSplit == SplitInit /\ [][SplitNext]_vars

====
